---- MODULE Spec2Model ----
(***************************************************************************)
(* CASIE Bridge: the bearer-token-gated HTTP command dispatcher of         *)
(* casie-bridge/main.py (and its reduced twin bridge/main.py), with the    *)
(* GeoLocation cache of GET /location, the static index of GET /videos and *)
(* the fire-and-forget OS actions.                                         *)
(*                                                                         *)
(* Time is counted in minutes and the clock is read at the instants of     *)
(* Instants.  A request to a sync route (def) is one step; a GET /location *)
(* (async def) is split at its two suspension points, the upstream GET and *)
(* the KV mirror PUT.                                                      *)
(***************************************************************************)
EXTENDS Integers, Sequences, FiniteSets, TLC

\* ---- bounds of the model ------------------------------------------------
MaxRequests == 2        \* requests received in one behaviour
MaxLaunches == 1        \* subprocess.Popen calls made in one behaviour
MaxPointId == 2         \* largest point ID in the collection before an index run
MaxEpisodes == 2        \* new episodes handed to one index run

\* ---- program constants --------------------------------------------------
cache_ttl_hours == 3
API_AUTH_TOKEN == "secret"

\* the instants at which the clock is read, in minutes: an entry written at
\* 0 is 2h59m, 3h and 3h01m old at the last three
Instants == {0, 179, 180, 181}

\* ---- input domains ------------------------------------------------------
Credentials == {"secret", "wrong"}
Paths == {"C:/tv/e01.mkv", "C:/nonexistent"}
ExistingPaths == {"C:/tv/e01.mkv"}
Payloads == {"locA", "locB"}
UpstreamOutcomes == {"ok", "fail", "transport", "timeout", "http_status", "bad_body"}
MirrorOutcomes == {"ok", "rejected", "transport", "timeout"}
PopenOutcomes == {"spawned", "raised"}
\* every request received may be a GET /location in flight
Slots == 1..MaxRequests

VARIABLES
    now,              \* the wall clock, in minutes
    location_file,    \* location.json on disk
    videos_file,      \* videos.md on disk
    KV_SYNC_ENABLED,  \* configuration read once at start
    launches,         \* every subprocess.Popen call made so far, in order
    upstream_calls,   \* GETs sent to ip-api.com so far
    mirror_calls,     \* PUTs sent to the KV store so far
    req,              \* the suspended GET /location requests
    nreq,             \* requests received so far
    resp,             \* the response sent last
    \* one run of videos.py's index_episodes_to_qdrant
    index_pc,         \* where the run is: "off", "scan", "embed", "upsert", "done"
    qdrant_ids,       \* the IDs of the points in the Qdrant collection
    episodes,         \* len(episodes): the new episodes to index
    next_id,
    idx,              \* episodes enumerated so far
    points,           \* the IDs of the points built so far, in order
    total_upserted

ivars == <<index_pc, qdrant_ids, episodes, next_id, idx, points, total_upserted>>
vars == <<now, location_file, videos_file, KV_SYNC_ENABLED, launches,
          upstream_calls, mirror_calls, req, nreq, resp, ivars>>

\* ---- values on disk -----------------------------------------------------
\* A string that may hold a timestamp: type "missing" (no such key), "num"
\* (a JSON value that is not a string), "str"; iso: fromisoformat parses it;
\* tz: it carries a UTC offset; t: the instant it denotes.
NoStr == [type |-> "missing", iso |-> FALSE, tz |-> FALSE, t |-> 0]
BadStr == [type |-> "str", iso |-> FALSE, tz |-> FALSE, t |-> 0]
NumVal == [type |-> "num", iso |-> FALSE, tz |-> FALSE, t |-> 0]
NaiveStr(t) == [type |-> "str", iso |-> TRUE, tz |-> FALSE, t |-> t]

\* datetime.isoformat() of an aware UTC datetime
isoformat(t) == [type |-> "str", iso |-> TRUE, tz |-> TRUE, t |-> t]

\* location.json: json is "invalid" (json.load raises), "array" (valid JSON,
\* not an object) or "object" with the keys location and last_updated.
NoFile == [exists |-> FALSE, json |-> "invalid", location |-> "null", last_updated |-> NoStr]
InvalidJsonFile == [exists |-> TRUE, json |-> "invalid", location |-> "null", last_updated |-> NoStr]
ArrayFile == [exists |-> TRUE, json |-> "array", location |-> "null", last_updated |-> NoStr]
ObjectFile(loc, lu) == [exists |-> TRUE, json |-> "object", location |-> loc, last_updated |-> lu]

\* json.dump of {"location": ..., "last_updated": ...}
\* faulty variant: the payload is left out of the record
cache_data_no_payload(location_data, stamp) == ObjectFile("null", stamp)
\* faulty variant: a refresh keeps an entry another refresh wrote meanwhile
cache_data_first_wins(location_data, stamp) ==
    IF location_file.exists /\ location_file.json = "object"
       /\ location_file.last_updated = stamp
    THEN location_file
    ELSE ObjectFile(location_data, stamp)
cache_data(location_data, stamp) == ObjectFile(location_data, stamp)

MalformedFiles ==
    { InvalidJsonFile, ArrayFile,
      ObjectFile("loc0", NoStr), ObjectFile("loc0", BadStr),
      ObjectFile("loc0", NumVal), ObjectFile("loc0", NaiveStr(0)) }

WellFormed(f) ==
    /\ f.exists /\ f.json = "object"
    /\ f.last_updated.type = "str" /\ f.last_updated.iso /\ f.last_updated.tz

\* videos.md, byte by byte: "a" an ASCII letter, "CR" and "LF" the two line
\* ends, "xFF" a byte that is not valid UTF-8
NoVideos == [exists |-> FALSE, bytes |-> <<>>]
VideosOf(b) == [exists |-> TRUE, bytes |-> b]
VideoSamples ==
    { <<"a", "LF">>, <<"CR", "CR", "LF", "a">>, <<"a", "xFF">> }

\* ---- responses ----------------------------------------------------------
HTTPException(status_code, detail) == [status |-> status_code, body |-> [detail |-> detail]]
Returned(body) == [status |-> 200, body |-> body]
\* an exception no handler catches: the framework answers 500 with the plain
\* text "Internal Server Error", not with a {detail} document
Uncaught == [status |-> 500, body |-> [text |-> "Internal Server Error"]]

\* The response sent last, with the request it answers (id, route, cred, path)
\* and what that request saw of the upstream and of the mirror.
NoResp == [id |-> 0, route |-> "none", cred |-> "", path |-> "", status |-> 0,
           body |-> [detail |-> ""], upstream |-> "none", mirror |-> "none"]

Reply(id, route, cred, http, up, mi) ==
    [id |-> id, route |-> route, cred |-> cred, path |-> "", status |-> http.status,
     body |-> http.body, upstream |-> up, mirror |-> mi]

\* ---- Credential Guard ---------------------------------------------------
\* faulty variant: a guard that lets every credential through
verify_token_open(credentials) == TRUE

\* TRUE: the dependency returns; FALSE: it raises 401
verify_token(credentials) == credentials = API_AUTH_TOKEN

Unauthorized == HTTPException(401, "Invalid authentication token")

Idle == [pc |-> "idle", id |-> 0, cred |-> "", location_data |-> "null", stamp |-> NoStr]

\* the service starts with some location.json, some videos.md and the KV
\* mirror configured or not
InitWith(caches, videos_files, kv) ==
    /\ now = 0
    /\ location_file \in caches
    /\ videos_file \in videos_files
    /\ KV_SYNC_ENABLED \in kv
    /\ launches = <<>>
    /\ upstream_calls = 0
    /\ mirror_calls = 0
    /\ req = [s \in Slots |-> Idle]
    /\ nreq = 0
    /\ resp = NoResp

\* no index run is going on
IndexOff ==
    /\ index_pc = "off"
    /\ qdrant_ids = {}
    /\ episodes = 0
    /\ next_id = 0
    /\ idx = 0
    /\ points = <<>>
    /\ total_upserted = 0

\* no cache yet, or an entry written at time 0
Init ==
    /\ InitWith({NoFile, ObjectFile("loc0", isoformat(0))}, {VideosOf(<<"a", "LF">>)}, BOOLEAN)
    /\ IndexOff

\* ---- the clock ----------------------------------------------------------
Tick ==
    /\ \E t \in Instants : t > now
    /\ now' = CHOOSE t \in Instants : t > now /\ \A u \in Instants : u > now => t <= u
    /\ UNCHANGED ivars
    /\ UNCHANGED <<location_file, videos_file, KV_SYNC_ENABLED, launches,
                   upstream_calls, mirror_calls, req, nreq, resp>>

\* ---- GET / and GET /health ----------------------------------------------
root_body == [ok |-> TRUE, service |-> "CASIE Bridge"]
\* faulty variant: a health document that counts the requests served
health_body_counting ==
    [status |-> "healthy", service |-> "CASIE Bridge", version |-> "1.0.0",
     authenticated |-> TRUE, served |-> nreq]
health_body == [status |-> "healthy", service |-> "CASIE Bridge", version |-> "1.0.0",
                authenticated |-> TRUE]

root(cred) ==
    /\ nreq < MaxRequests
    /\ nreq' = nreq + 1
    /\ resp' = Reply(nreq + 1, "root", cred,
                     IF verify_token(cred) THEN Returned(root_body) ELSE Unauthorized,
                     "none", "none")
    /\ UNCHANGED ivars
    /\ UNCHANGED <<now, location_file, videos_file, KV_SYNC_ENABLED, launches,
                   upstream_calls, mirror_calls, req>>

health(cred) ==
    /\ nreq < MaxRequests
    /\ nreq' = nreq + 1
    /\ resp' = Reply(nreq + 1, "health", cred,
                     IF verify_token(cred) THEN Returned(health_body) ELSE Unauthorized,
                     "none", "none")
    /\ UNCHANGED ivars
    /\ UNCHANGED <<now, location_file, videos_file, KV_SYNC_ENABLED, launches,
                   upstream_calls, mirror_calls, req>>

\* ---- GET /videos -------------------------------------------------------
\* open(..., 'r', encoding='utf-8').read(): the bytes decode as UTF-8 or the
\* read raises UnicodeDecodeError
decodable(bytes) == \A i \in 1..Len(bytes) : bytes[i] # "xFF"

\* text mode with the default newline=None: "\r\n" and a lone "\r" are both
\* read as "\n"
RECURSIVE translate_newlines(_)
translate_newlines(b) ==
    IF b = <<>> THEN <<>>
    ELSE IF Head(b) = "CR"
         THEN <<"LF">> \o translate_newlines(IF Len(b) > 1 /\ b[2] = "LF"
                                              THEN Tail(Tail(b)) ELSE Tail(b))
         ELSE <<Head(b)>> \o translate_newlines(Tail(b))

\* faulty variant: the bytes are handed back as they are (newline='')
read_text_raw(bytes) == bytes

read_text(bytes) == translate_newlines(bytes)

videos_http(file) ==
    IF ~file.exists
    THEN HTTPException(404, "Videos index not found. Run videos.py to generate it.")
    ELSE IF ~decodable(file.bytes)
         THEN HTTPException(500, "Error reading videos index")
         ELSE Returned([ok |-> TRUE, content |-> read_text(file.bytes), file |-> "videos.md"])

videos(cred) ==
    /\ nreq < MaxRequests
    /\ nreq' = nreq + 1
    /\ resp' = Reply(nreq + 1, "videos", cred,
                     IF verify_token(cred) THEN videos_http(videos_file) ELSE Unauthorized,
                     "none", "none")
    /\ UNCHANGED ivars
    /\ UNCHANGED <<now, location_file, videos_file, KV_SYNC_ENABLED, launches,
                   upstream_calls, mirror_calls, req>>

\* ---- System Command Executor --------------------------------------------
\* subprocess.Popen(argv, shell=False): the call either raises at once or
\* returns with the child running; nothing waits for the child.
Popen(argv, outcome, id) ==
    [argv |-> argv, raised |-> outcome = "raised", running |-> outcome = "spawned", by |-> id]

\* faulty variant: the existence check always passes
os_path_exists_any(path) == TRUE

os_path_exists(path) == path \in ExistingPaths

open_argv(path) == <<"cmd", "/c", "start", "", path>>
lock_argv == <<"rundll32.exe", "user32.dll,LockWorkStation">>
restart_argv == <<"shutdown", "/r", "/t", "0", "/f">>
shutdown_argv == <<"shutdown", "/s", "/t", "0", "/f">>
sleep_argv == <<"rundll32.exe", "powrprof.dll,SetSuspendState", "0", "1", "0">>

\* faulty variant: a launch error is swallowed
launch_http_swallow(outcome, body, failure) == Returned(body)

\* the try/except around Popen: the response once the launch call is over
launch_http(outcome, body, failure) ==
    IF outcome = "raised" THEN HTTPException(500, failure) ELSE Returned(body)

open_file(cred, path, outcome) ==
    /\ nreq < MaxRequests
    /\ nreq' = nreq + 1
    /\ LET reply(http) == [Reply(nreq + 1, "open", cred, http, "none", "none")
                             EXCEPT !.path = path] IN
       IF ~verify_token(cred)
       THEN /\ resp' = reply(Unauthorized)
            /\ UNCHANGED launches
       ELSE IF ~os_path_exists(path)
       THEN /\ resp' = reply(HTTPException(404, "File not found"))
            /\ UNCHANGED launches
       ELSE /\ Len(launches) < MaxLaunches
            /\ launches' = Append(launches, Popen(open_argv(path), outcome, nreq + 1))
            /\ resp' = reply(launch_http(outcome,
                                         [ok |-> TRUE, path |-> path,
                                          message |-> "File opened successfully"],
                                         "Failed to open file"))
    /\ UNCHANGED ivars
    /\ UNCHANGED <<now, location_file, videos_file, KV_SYNC_ENABLED,
                   upstream_calls, mirror_calls, req>>

\* the common shape of lock_pc, restart_pc, shutdown_pc and sleep_pc
executor(route, argv, message, failure, cred, outcome) ==
    /\ nreq < MaxRequests
    /\ nreq' = nreq + 1
    /\ IF ~verify_token(cred)
       THEN /\ resp' = Reply(nreq + 1, route, cred, Unauthorized, "none", "none")
            /\ UNCHANGED launches
       ELSE /\ Len(launches) < MaxLaunches
            /\ launches' = Append(launches, Popen(argv, outcome, nreq + 1))
            /\ resp' = Reply(nreq + 1, route, cred,
                             launch_http(outcome, [ok |-> TRUE, message |-> message], failure),
                             "none", "none")
    /\ UNCHANGED ivars
    /\ UNCHANGED <<now, location_file, videos_file, KV_SYNC_ENABLED,
                   upstream_calls, mirror_calls, req>>

lock_pc(cred, outcome) ==
    executor("lock", lock_argv, "PC locked successfully", "Failed to lock PC", cred, outcome)

restart_pc(cred, outcome) ==
    executor("restart", restart_argv, "PC restart initiated", "Failed to restart PC", cred, outcome)

shutdown_pc(cred, outcome) ==
    executor("shutdown", shutdown_argv, "PC shutdown initiated", "Failed to shutdown PC", cred, outcome)

sleep_pc(cred, outcome) ==
    executor("sleep", sleep_argv, "PC sleep initiated", "Failed to put PC to sleep", cred, outcome)

\* a launched child ends on its own, whenever it does
ProcExit(i) ==
    /\ i \in 1..Len(launches)
    /\ launches[i].running
    /\ launches' = [launches EXCEPT ![i].running = FALSE]
    /\ UNCHANGED ivars
    /\ UNCHANGED <<now, location_file, videos_file, KV_SYNC_ENABLED,
                   upstream_calls, mirror_calls, req, nreq, resp>>

\* ---- GET /location -----------------------------------------------------
\* cached_data.get(key): None when the key is missing
dict_get(file, key) == IF key = "location" THEN file.location ELSE file.last_updated

\* the exception raised while the cache is read and its age computed, or "none"
cache_read_exc(file) ==
    IF file.json = "invalid" THEN "JSONDecodeError"              \* json.load
    ELSE IF file.json # "object" THEN "AttributeError"           \* cached_data.get
    ELSE LET s == dict_get(file, "last_updated") IN
         IF s.type = "num" THEN "TypeError"                      \* fromisoformat(not a str)
         ELSE IF ~s.iso THEN "ValueError"                        \* fromisoformat("") or of garbage
         ELSE IF ~s.tz THEN "TypeError"                          \* aware - naive
         ELSE "none"

\* faulty variant: JSONDecodeError left out of the except clause
CacheCheckCaught_narrow == {"KeyError", "ValueError"}

\* except (json.JSONDecodeError, KeyError, ValueError): pass
CacheCheckCaught == {"JSONDecodeError", "KeyError", "ValueError"}

\* faulty variant: an entry exactly cache_ttl_hours old still counts as fresh
cache_is_fresh_inclusive(age) == age <= cache_ttl_hours * 60

\* age_hours < cache_ttl_hours, the age given in minutes (age_hours is the
\* age in seconds divided by 3600)
cache_is_fresh(age) == age < cache_ttl_hours * 60

\* round(age_hours, 2), in hundredths of an hour: 100 * age / 60 rounded to
\* the nearest integer (a whole number of minutes never falls on a tie, and
\* the age is never negative here)
round2(age) == (10 * age + 3) \div 6

fresh_body(file, age) ==
    [ok |-> TRUE, location |-> dict_get(file, "location"), cached |-> TRUE,
     last_updated |-> dict_get(file, "last_updated"), age_hours |-> round2(age)]

\* faulty variant: a request that finds a refresh in flight is turned away
\* instead of starting its own
cache_check_single_flight(file, t) ==
    IF \E s \in Slots : req[s].pc = "fetching"
    THEN [kind |-> "raise", http |-> HTTPException(503, "Refresh in progress")]
    ELSE IF ~file.exists THEN [kind |-> "fetch", http |-> Uncaught]
    ELSE LET exc == cache_read_exc(file) IN
         IF exc # "none"
         THEN IF exc \in CacheCheckCaught
              THEN [kind |-> "fetch", http |-> Uncaught]
              ELSE [kind |-> "raise", http |-> Uncaught]
         ELSE LET age == t - file.last_updated.t IN
              IF cache_is_fresh(age)
              THEN [kind |-> "return", http |-> Returned(fresh_body(file, age))]
              ELSE [kind |-> "fetch", http |-> Uncaught]
\* lines 143-164: "return" a response, "raise" out of the handler, or go on
\* to "fetch"
cache_check(file, t) ==
    IF ~file.exists THEN [kind |-> "fetch", http |-> Uncaught]
    ELSE LET exc == cache_read_exc(file) IN
         IF exc # "none"
         THEN IF exc \in CacheCheckCaught
              THEN [kind |-> "fetch", http |-> Uncaught]
              ELSE [kind |-> "raise", http |-> Uncaught]
         ELSE LET age == t - file.last_updated.t IN
              IF cache_is_fresh(age)
              THEN [kind |-> "return", http |-> Returned(fresh_body(file, age))]
              ELSE [kind |-> "fetch", http |-> Uncaught]

\* faulty variant: the upstream's own status field is not looked at
fetch_exc_unchecked(outcome) ==
    CASE outcome = "transport" -> "ConnectError"
      [] outcome = "timeout" -> "TimeoutException"
      [] outcome = "http_status" -> "HTTPStatusError"
      [] outcome = "bad_body" -> "JSONDecodeError"
      [] OTHER -> "none"
\* what the upstream GET, raise_for_status, response.json() and the status
\* check raise, or "none"
fetch_exc(outcome) ==
    CASE outcome = "transport" -> "ConnectError"
      [] outcome = "timeout" -> "TimeoutException"
      [] outcome = "http_status" -> "HTTPStatusError"
      [] outcome = "bad_body" -> "JSONDecodeError"
      [] outcome = "fail" -> "HTTPException"
      [] OTHER -> "none"

\* the exceptions `except httpx.HTTPError` catches
httpx_HTTPError == {"ConnectError", "TimeoutException", "HTTPStatusError"}

stale_body(file) ==
    [ok |-> TRUE, location |-> dict_get(file, "location"), cached |-> TRUE, stale |-> TRUE,
     last_updated |-> dict_get(file, "last_updated"),
     warning |-> "Using stale cache due to API error"]

\* faulty variant: no fallback to the persisted entry
stale_fallback_none(file) == HTTPException(502, "Failed to fetch location data")

\* lines 204-226: the cache is read again; a bare except hides any failure
stale_fallback(file) ==
    IF file.exists /\ file.json = "object"
    THEN Returned(stale_body(file))
    ELSE HTTPException(502, "Failed to fetch location data")

\* the two except clauses that close the handler's try block
location_except(exc, file) ==
    IF exc \in httpx_HTTPError
    THEN stale_fallback(file)
    ELSE HTTPException(500, "Error retrieving location")

refreshed_body(location_data, stamp) ==
    [ok |-> TRUE, location |-> location_data, cached |-> FALSE,
     last_updated |-> stamp, age_hours |-> 0]

\* faulty variant: the mirror's failure is not caught
sync_location_to_kv_raising(outcome) == IF outcome = "ok" THEN "True" ELSE "ConnectError"

\* sync_location_to_kv: "True", "False", or the exception it lets through
sync_location_to_kv(outcome) == IF outcome = "ok" THEN "True" ELSE "False"

LowestIdle(s) == req[s].pc = "idle" /\ \A s2 \in Slots : s2 < s => req[s2].pc # "idle"

\* the request arrives: guard, cache check, and the upstream GET is sent
location_begin(s, cred) ==
    /\ nreq < MaxRequests
    /\ LowestIdle(s)
    /\ nreq' = nreq + 1
    /\ IF ~verify_token(cred)
       THEN /\ resp' = Reply(nreq + 1, "location", cred, Unauthorized, "none", "none")
            /\ UNCHANGED <<req, upstream_calls>>
       ELSE LET chk == cache_check(location_file, now) IN
            IF chk.kind = "fetch"
            THEN /\ req' = [req EXCEPT ![s] = [pc |-> "fetching", id |-> nreq + 1, cred |-> cred,
                                               location_data |-> "null", stamp |-> NoStr]]
                 /\ upstream_calls' = upstream_calls + 1
                 /\ UNCHANGED resp
            ELSE /\ resp' = Reply(nreq + 1, "location", cred, chk.http, "none", "none")
                 /\ UNCHANGED <<req, upstream_calls>>
    /\ UNCHANGED ivars
    /\ UNCHANGED <<now, location_file, videos_file, KV_SYNC_ENABLED, launches, mirror_calls>>

\* the upstream GET is over: the cache is written and the mirror PUT sent, or
\* the failure is answered
location_fetched(s, outcome, location_data) ==
    /\ req[s].pc = "fetching"
    /\ IF fetch_exc(outcome) # "none"
       THEN /\ resp' = Reply(req[s].id, "location", req[s].cred,
                             location_except(fetch_exc(outcome), location_file),
                             outcome, "none")
            /\ req' = [req EXCEPT ![s] = Idle]
            /\ UNCHANGED <<location_file, mirror_calls>>
       ELSE /\ location_file' = cache_data(location_data, isoformat(now))
            /\ IF KV_SYNC_ENABLED
               THEN /\ req' = [req EXCEPT ![s].pc = "mirroring",
                                          ![s].location_data = location_data,
                                          ![s].stamp = isoformat(now)]
                    /\ mirror_calls' = mirror_calls + 1
                    /\ UNCHANGED resp
               ELSE /\ resp' = Reply(req[s].id, "location", req[s].cred,
                                     Returned(refreshed_body(location_data, isoformat(now))),
                                     outcome, "disabled")
                    /\ req' = [req EXCEPT ![s] = Idle]
                    /\ UNCHANGED mirror_calls
    /\ UNCHANGED ivars
    /\ UNCHANGED <<now, videos_file, KV_SYNC_ENABLED, launches, upstream_calls, nreq>>

\* faulty variant: the PUT is sent without a timeout to a KV store that
\* stays silent, so the await never returns
location_mirrored_no_timeout(s, outcome) ==
    /\ req[s].pc = "mirroring"
    /\ outcome = "silent"
    /\ UNCHANGED vars

\* faulty variant: a PUT that timed out is sent again
location_mirrored_retry(s, outcome) ==
    /\ req[s].pc = "mirroring"
    /\ IF outcome = "timeout" /\ mirror_calls <= MaxRequests
       THEN /\ mirror_calls' = mirror_calls + 1
            /\ UNCHANGED <<req, resp>>
       ELSE /\ resp' = Reply(req[s].id, "location", req[s].cred,
                             Returned(refreshed_body(req[s].location_data, req[s].stamp)),
                             "ok", outcome)
            /\ req' = [req EXCEPT ![s] = Idle]
            /\ UNCHANGED mirror_calls
    /\ UNCHANGED ivars
    /\ UNCHANGED <<now, location_file, videos_file, KV_SYNC_ENABLED, launches,
                   upstream_calls, nreq>>

\* faulty variant: location.json is written after the mirror PUT, with the
\* timestamp taken before it
location_mirrored_saves(s, outcome) ==
    /\ req[s].pc = "mirroring"
    /\ resp' = Reply(req[s].id, "location", req[s].cred,
                     Returned(refreshed_body(req[s].location_data, req[s].stamp)),
                     "ok", outcome)
    /\ location_file' = cache_data(req[s].location_data, req[s].stamp)
    /\ req' = [req EXCEPT ![s] = Idle]
    /\ UNCHANGED ivars
    /\ UNCHANGED <<now, videos_file, KV_SYNC_ENABLED, launches,
                   upstream_calls, mirror_calls, nreq>>
\* the mirror PUT is over
location_mirrored(s, outcome) ==
    /\ req[s].pc = "mirroring"
    /\ LET r == sync_location_to_kv(outcome) IN
       resp' = Reply(req[s].id, "location", req[s].cred,
                     IF r \in {"True", "False"}
                     THEN Returned(refreshed_body(req[s].location_data, req[s].stamp))
                     ELSE location_except(r, location_file),
                     "ok", outcome)
    /\ req' = [req EXCEPT ![s] = Idle]
    /\ UNCHANGED ivars
    /\ UNCHANGED <<now, location_file, videos_file, KV_SYNC_ENABLED, launches,
                   upstream_calls, mirror_calls, nreq>>

Next ==
    \/ Tick
    \/ \E cred \in Credentials : root(cred)
    \/ \E cred \in Credentials : health(cred)
    \/ \E cred \in Credentials : videos(cred)
    \/ \E cred \in Credentials, path \in Paths, o \in PopenOutcomes : open_file(cred, path, o)
    \/ \E cred \in Credentials, o \in PopenOutcomes : lock_pc(cred, o)
    \/ \E cred \in Credentials, o \in PopenOutcomes : restart_pc(cred, o)
    \/ \E cred \in Credentials, o \in PopenOutcomes : shutdown_pc(cred, o)
    \/ \E cred \in Credentials, o \in PopenOutcomes : sleep_pc(cred, o)
    \/ \E i \in 1..MaxLaunches : ProcExit(i)
    \/ \E s \in Slots, cred \in Credentials : location_begin(s, cred)
    \/ \E s \in Slots, o \in UpstreamOutcomes, d \in Payloads : location_fetched(s, o, d)
    \/ \E s \in Slots, o \in MirrorOutcomes : location_mirrored(s, o)

Spec == Init /\ [][Next]_vars

\* the same service, started on a damaged location.json
InitCorrupt == InitWith({NoFile, InvalidJsonFile}, {NoVideos}, BOOLEAN) /\ IndexOff
SpecCorrupt == InitCorrupt /\ [][Next]_vars

InitMalformed == InitWith(MalformedFiles, {NoVideos}, BOOLEAN) /\ IndexOff
SpecMalformed == InitMalformed /\ [][Next]_vars

\* the same service, started on each sample videos.md and no location cache
InitVideos ==
    /\ InitWith({NoFile}, {NoVideos} \cup {VideosOf(b) : b \in VideoSamples}, {TRUE})
    /\ IndexOff
SpecVideos == InitVideos /\ [][Next]_vars

\* The service with its awaits bounded: client.get and client.put are both
\* called with timeout=10.0 (main.py:171, main.py:63), so an upstream GET or
\* a mirror PUT in flight ends, with an answer, an error or a timeout.
InitLive == InitWith({NoFile, ObjectFile("loc0", isoformat(0))}, {NoVideos}, {TRUE}) /\ IndexOff
Fairness ==
    \A s \in Slots :
        /\ WF_vars(\E o \in UpstreamOutcomes, d \in Payloads : location_fetched(s, o, d))
        /\ WF_vars(\E o \in MirrorOutcomes : location_mirrored(s, o))
\* the GET /location requests alone, with the clock
NextLive ==
    \/ Tick
    \/ \E s \in Slots, cred \in Credentials : location_begin(s, cred)
    \/ \E s \in Slots, o \in UpstreamOutcomes, d \in Payloads : location_fetched(s, o, d)
    \/ \E s \in Slots, o \in MirrorOutcomes : location_mirrored(s, o)
SpecLive == InitLive /\ [][NextLive]_vars /\ Fairness

\* ---- videos.py: index_episodes_to_qdrant -----------------------------------
\* One run, from the scan for the highest point ID on.  The run gets here
\* only with at least one new episode (it returns before when there is
\* none).  A point is written as its ID; an upsert replaces the point that
\* has the same ID.
IndexOutcomes == {"ok", "raised"}
batch_size == 100
svars == <<now, location_file, videos_file, KV_SYNC_ENABLED, launches,
           upstream_calls, mirror_calls, req, nreq, resp>>

\* the loop over client.scroll: the highest ID found, starting from 0
max_id(ids) == CHOOSE m \in ids \cup {0} : \A x \in ids \cup {0} : x <= m

\* next_id after the try block: max_id + 1, or 0 when anything in it raised
first_id(outcome) == IF outcome = "ok" THEN max_id(qdrant_ids) + 1 ELSE 0

scan_max_id(outcome) ==
    /\ index_pc = "scan"
    /\ next_id' = first_id(outcome)
    /\ index_pc' = "embed"
    /\ UNCHANGED <<qdrant_ids, episodes, idx, points, total_upserted>>
    /\ UNCHANGED svars

\* one turn of the loop over enumerate(episodes): the point is built with
\* id next_id + idx, or the embedding fails and the episode is skipped
embed_episode(outcome) ==
    /\ index_pc = "embed"
    /\ idx < episodes
    /\ points' = IF outcome = "ok" THEN Append(points, next_id + idx) ELSE points
    /\ idx' = idx + 1
    /\ index_pc' = IF idx' < episodes THEN "embed"
                   ELSE IF points' = <<>> THEN "done"        \* "No embeddings generated!"
                   ELSE "upsert"
    /\ UNCHANGED <<qdrant_ids, episodes, next_id, total_upserted>>
    /\ UNCHANGED svars

\* points[i:i+batch_size] for i = total_upserted
next_batch ==
    SubSeq(points, total_upserted + 1,
           IF total_upserted + batch_size < Len(points)
           THEN total_upserted + batch_size ELSE Len(points))

\* one client.upsert: the batch is stored, or the call raises and the run ends
upsert_batch(outcome) ==
    /\ index_pc = "upsert"
    /\ IF outcome = "ok"
       THEN /\ qdrant_ids' = qdrant_ids \cup {next_batch[i] : i \in 1..Len(next_batch)}
            /\ total_upserted' = total_upserted + Len(next_batch)
            /\ index_pc' = IF total_upserted' < Len(points) THEN "upsert" ELSE "done"
       ELSE /\ index_pc' = "done"
            /\ UNCHANGED <<qdrant_ids, total_upserted>>
    /\ UNCHANGED <<episodes, next_id, idx, points>>
    /\ UNCHANGED svars

\* a run starts on any collection and any number of new episodes
InitIndex ==
    /\ InitWith({NoFile}, {NoVideos}, {FALSE})
    /\ index_pc = "scan"
    /\ qdrant_ids \in SUBSET (0..MaxPointId)
    /\ episodes \in 1..MaxEpisodes
    /\ next_id = 0
    /\ idx = 0
    /\ points = <<>>
    /\ total_upserted = 0

NextIndex ==
    \/ \E o \in IndexOutcomes : scan_max_id(o)
    \/ \E o \in IndexOutcomes : embed_episode(o)
    \/ \E o \in IndexOutcomes : upsert_batch(o)

SpecIndex == InitIndex /\ [][NextIndex]_vars

\* ---- vocabulary of the properties ---------------------------------------
\* this step receives a request on `route` carrying the credential c
Arrived(route, c) ==
    /\ nreq' = nreq + 1
    /\ \/ resp'.id = nreq' /\ resp'.route = route /\ resp'.cred = c
       \/ route = "location" /\ \E s \in Slots : req'[s].id = nreq' /\ req'[s].cred = c

\* this step sends a response
Responded == resp'.id # resp.id

Routes == {"root", "health", "videos", "location", "open", "lock", "restart", "shutdown", "sleep"}
FailedTransport == {"transport", "timeout", "http_status"}
TTL == cache_ttl_hours * 60

\* C1: on every route, a request whose bearer credential differs from the
\* configured token is answered 401 in the step that receives it, and that
\* step launches nothing, calls neither the upstream nor the mirror, and
\* leaves location.json as it was.
C1_Unauthenticated ==
    [][ \A route \in Routes, c \in Credentials :
          (Arrived(route, c) /\ c # API_AUTH_TOKEN) =>
             /\ resp'.id = nreq'
             /\ resp'.status = 401
             /\ UNCHANGED <<launches, upstream_calls, mirror_calls, location_file, req>> ]_vars

C1_Witness ==
    /\ resp.route = "location" /\ resp.cred # API_AUTH_TOKEN /\ resp.status = 401
    /\ ~location_file.exists /\ upstream_calls = 0

\* C2: an authorized GET /location that finds a well-formed entry written at
\* T is served from the cache (cached: true, no upstream call, no write)
\* whenever now < T + 3h, and sends an upstream GET whenever now >= T + 3h.
C2_Freshness ==
    [][ (Arrived("location", API_AUTH_TOKEN) /\ WellFormed(location_file)) =>
          IF now < location_file.last_updated.t + TTL
          THEN /\ resp'.id = nreq'
               /\ resp'.status = 200
               /\ resp'.body.cached
               /\ "stale" \notin DOMAIN resp'.body
               /\ resp'.body.location = location_file.location
               /\ UNCHANGED <<upstream_calls, mirror_calls, location_file>>
          ELSE /\ upstream_calls' = upstream_calls + 1
               /\ UNCHANGED <<resp, location_file>> ]_vars

\* served from the cache at 2h59m
C2_Witness ==
    /\ resp.route = "location" /\ resp.status = 200 /\ resp.upstream = "none"
    /\ resp.body.cached
    /\ now = resp.body.last_updated.t + 179
    /\ resp.body.age_hours = 298
    /\ upstream_calls = 0

\* C3: when the upstream GET fails (transport error, timeout, HTTP error
\* status) and location.json holds a well-formed entry, the response is 200
\* with that entry's payload and timestamp, cached: true, stale: true and a
\* warning; when there is no location.json the response is 502.
C3_StaleFallback ==
    [][ (Responded /\ resp'.route = "location" /\ resp'.upstream \in FailedTransport) =>
          /\ WellFormed(location_file) =>
               /\ resp'.status = 200
               /\ resp'.body.location = location_file.location
               /\ resp'.body.last_updated = location_file.last_updated
               /\ resp'.body.cached
               /\ "stale" \in DOMAIN resp'.body /\ resp'.body.stale
               /\ "warning" \in DOMAIN resp'.body
          /\ ~location_file.exists => resp'.status = 502
          /\ UNCHANGED location_file ]_vars

C3_Witness ==
    /\ resp.route = "location" /\ resp.upstream = "timeout" /\ resp.status = 200
    /\ "stale" \in DOMAIN resp.body /\ resp.body.stale
    /\ resp.body.location = "loc0"
    /\ now >= resp.body.last_updated.t + TTL

\* the upstream GET of slot s ends in this step
FetchDone(s) == req[s].pc = "fetching" /\ req'[s].pc # "fetching"

\* the status a GET /location gets, by what the upstream did, when there is
\* no location.json
NoCacheStatus(outcome) ==
    CASE outcome = "ok" -> 200
      [] outcome \in FailedTransport -> 502
      [] OTHER -> 500

\* C4: when the upstream answers with status "fail", GET /location responds
\* 502 if there is no location.json and falls back to the stale entry (200,
\* stale: true) if there is a well-formed one.
C4_UpstreamRejected ==
    [][ (Responded /\ resp'.route = "location" /\ resp'.upstream = "fail") =>
          /\ ~location_file.exists => resp'.status = 502
          /\ WellFormed(location_file) =>
               /\ resp'.status = 200
               /\ "stale" \in DOMAIN resp'.body /\ resp'.body.stale
               /\ resp'.body.location = location_file.location ]_vars

\* a GET /location treats the file f, found in location.json, as it treats a
\* missing file: the request that arrives sends the upstream GET and is not
\* answered yet; the request whose GET ends writes the fresh record and
\* answers 200 cached: false (or goes on to the mirror), or answers the
\* no-cache status of the failure and leaves the file alone.
TreatedAsMissing ==
    /\ Arrived("location", API_AUTH_TOKEN) =>
          /\ upstream_calls' = upstream_calls + 1
          /\ UNCHANGED <<resp, location_file>>
    /\ \A s \in Slots : FetchDone(s) =>
          \/ /\ req'[s].pc = "mirroring"
             /\ location_file' = cache_data(req'[s].location_data, isoformat(now))
             /\ UNCHANGED resp
          \/ /\ resp'.id = req[s].id
             /\ resp'.status = NoCacheStatus(resp'.upstream)
             /\ IF resp'.status = 200
                THEN /\ ~resp'.body.cached
                     /\ "stale" \notin DOMAIN resp'.body
                     /\ location_file' = cache_data(resp'.body.location, isoformat(now))
                ELSE UNCHANGED location_file

\* C5: a location.json that is not valid JSON is treated exactly like a
\* missing one: the request goes to the upstream, and its response is the
\* one of the no-cache case (200 fresh, or 502 when the upstream fails); the
\* corruption never produces a response of its own.
C5_CorruptAsMissing ==
    [][ (location_file \in {NoFile, InvalidJsonFile}) => (TreatedAsMissing) ]_vars

C5_Witness ==
    /\ location_file = InvalidJsonFile
    /\ resp.route = "location" /\ resp.upstream \in FailedTransport /\ resp.status = 502

\* C6: every malformed location.json (invalid JSON, not an object, missing
\* or unparseable last_updated, last_updated not a string or without a
\* timezone) is treated exactly like a missing one, on both refresh outcomes.
C6_MalformedAsMissing ==
    [][ (location_file \in MalformedFiles) => (TreatedAsMissing) ]_vars

\* the launch call made by this step, when it makes exactly one
Launched == launches'[Len(launches')]
OneLaunch == Len(launches') = Len(launches) + 1 /\ SubSeq(launches', 1, Len(launches)) = launches

\* C7: an authorized POST /open {path} answers 404 without any launch call
\* when the path does not exist; when it exists it makes exactly one launch
\* call, with that path, and answers 200 {ok: true, path}, or 500 if the
\* launch call raised.
C7_OpenFile ==
    [][ (Responded /\ resp'.route = "open" /\ resp'.cred = API_AUTH_TOKEN) =>
          IF resp'.path \notin ExistingPaths
          THEN resp'.status = 404 /\ UNCHANGED launches
          ELSE /\ OneLaunch
               /\ Launched.argv = <<"cmd", "/c", "start", "", resp'.path>>
               /\ Launched.by = resp'.id
               /\ IF Launched.raised
                  THEN resp'.status = 500
                  ELSE /\ resp'.status = 200
                       /\ resp'.body.ok
                       /\ resp'.body.path = resp'.path ]_vars

C7_Witness ==
    /\ resp.route = "open" /\ resp.cred = API_AUTH_TOKEN /\ resp.status = 200
    /\ resp.body.path = "C:/tv/e01.mkv"
    /\ Len(launches) = 1 /\ launches[1].argv[5] = "C:/tv/e01.mkv"

HasByte(b, x) == \E i \in 1..Len(b) : b[i] = x

\* the text of the bytes b once every LF that follows a CR is dropped and
\* every CR is turned into LF
Kept(b) == {i \in 1..Len(b) : ~(b[i] = "LF" /\ i > 1 /\ b[i - 1] = "CR")}
KeptAt(b, k) == CHOOSE i \in Kept(b) : Cardinality({j \in Kept(b) : j <= i}) = k
ExpectedText(b) ==
    [k \in 1..Cardinality(Kept(b)) |->
        IF b[KeptAt(b, k)] = "CR" THEN "LF" ELSE b[KeptAt(b, k)]]

VideosStep == Responded /\ resp'.route = "videos" /\ resp'.cred = API_AUTH_TOKEN
VideosFrame ==
    UNCHANGED <<upstream_calls, mirror_calls, location_file, videos_file, launches, req>>

\* C8 as stated: an authorized GET /videos answers 404 (never 502) when
\* videos.md is absent and 200 with the file's content unmodified when it is
\* present, with no upstream call and no file written.
C8_ExactContent ==
    [][ VideosStep =>
          /\ IF ~videos_file.exists
             THEN resp'.status = 404
             ELSE resp'.status = 200 /\ resp'.body.content = videos_file.bytes
          /\ VideosFrame ]_vars

\* C8 as amended: 404 (never 502) when videos.md is absent; 500 when it is
\* present but does not decode as UTF-8; otherwise 200 with the file's text
\* in which every CR LF and every lone CR is read as LF, which is the file's
\* content exactly when the file holds no CR; no upstream call, no file
\* written.
C8_TextContent ==
    [][ VideosStep =>
          /\ IF ~videos_file.exists
             THEN resp'.status = 404
             ELSE IF HasByte(videos_file.bytes, "xFF")
             THEN resp'.status = 500
             ELSE /\ resp'.status = 200
                  /\ resp'.body.ok
                  /\ resp'.body.content = ExpectedText(videos_file.bytes)
                  /\ (resp'.body.content = videos_file.bytes)
                        <=> ~HasByte(videos_file.bytes, "CR")
          /\ resp'.status # 502
          /\ VideosFrame ]_vars

C8_Witness ==
    /\ resp.route = "videos" /\ resp.cred = API_AUTH_TOKEN /\ resp.status = 200
    /\ videos_file.bytes = <<"CR", "CR", "LF", "a">>
    /\ resp.body.content = <<"LF", "LF", "a">>

ExecutorArgv(route) ==
    CASE route = "lock" -> <<"rundll32.exe", "user32.dll,LockWorkStation">>
      [] route = "restart" -> <<"shutdown", "/r", "/t", "0", "/f">>
      [] route = "shutdown" -> <<"shutdown", "/s", "/t", "0", "/f">>
      [] route = "sleep" -> <<"rundll32.exe", "powrprof.dll,SetSuspendState", "0", "1", "0">>

\* C9: an authorized POST /lock, /restart, /shutdown or /sleep makes exactly
\* one launch call, of its own OS action; it answers 200 {ok: true} if the
\* call returned and 500 if and only if the call raised; the response is
\* sent while the launched action is still running.
C9_Executors ==
    [][ (Responded /\ resp'.route \in {"lock", "restart", "shutdown", "sleep"}
           /\ resp'.cred = API_AUTH_TOKEN) =>
          /\ OneLaunch
          /\ Launched.argv = ExecutorArgv(resp'.route)
          /\ Launched.by = resp'.id
          /\ resp'.status = IF Launched.raised THEN 500 ELSE 200
          /\ ~Launched.raised => resp'.body.ok /\ Launched.running ]_vars

C9_Witness ==
    /\ resp.route = "shutdown" /\ resp.cred = API_AUTH_TOKEN /\ resp.status = 200
    /\ Len(launches) = 1 /\ launches[1].running
    /\ launches[1].argv = <<"shutdown", "/s", "/t", "0", "/f">>

\* C10: once the upstream GET has succeeded, the mirror cannot change the
\* response: location.json holds the fresh record when the mirror PUT is
\* sent, and whether the mirror is disabled, accepts, rejects, fails or
\* times out, the request is answered 200 with that record and cached: false.
C10_MirrorIgnored ==
    [][ \A s \in Slots :
          /\ (FetchDone(s) /\ req'[s].pc = "mirroring") =>
                /\ KV_SYNC_ENABLED
                /\ mirror_calls' = mirror_calls + 1
                /\ location_file' = cache_data(req'[s].location_data, req'[s].stamp)
                /\ req'[s].stamp = isoformat(now)
          /\ (FetchDone(s) /\ resp'.id = req[s].id /\ resp'.upstream = "ok") =>
                /\ ~KV_SYNC_ENABLED
                /\ resp'.status = 200
                /\ ~resp'.body.cached
                /\ location_file' = cache_data(resp'.body.location, resp'.body.last_updated)
                /\ UNCHANGED mirror_calls
          /\ (req[s].pc = "mirroring" /\ req'[s].pc # "mirroring") =>
                /\ resp'.id = req[s].id
                /\ resp'.status = 200
                /\ ~resp'.body.cached
                /\ "stale" \notin DOMAIN resp'.body
                /\ resp'.body.location = req[s].location_data
                /\ resp'.body.last_updated = req[s].stamp
                /\ resp'.body.age_hours = 0 ]_vars

C10_Witness ==
    /\ resp.route = "location" /\ resp.mirror = "timeout" /\ resp.status = 200
    /\ ~resp.body.cached
    /\ location_file = cache_data(resp.body.location, resp.body.last_updated)

\* C11: every response sent with status 200 carries ok = true in its body,
\* and every other response carries an error status (400 or above) and a
\* detail message.  GET /health answers 200 without an ok field.
C11_UniformEnvelope ==
    resp.id # 0 =>
        /\ resp.status = 200 => "ok" \in DOMAIN resp.body /\ resp.body.ok = TRUE
        /\ resp.status # 200 => resp.status >= 400 /\ "detail" \in DOMAIN resp.body

\* C12: every authorized GET / and GET /health, whenever it arrives and
\* whatever else is in flight, is answered 200 with one fixed body per route,
\* starts no process, sends nothing to ip-api.com or to the KV store, and
\* leaves location.json, videos.md and the suspended requests as they were.
C12_HealthIdempotent ==
    [][ (Responded /\ resp'.route \in {"root", "health"} /\ resp'.cred = API_AUTH_TOKEN) =>
          (/\ resp'.status = 200
           /\ resp'.route = "root" => resp'.body = [ok |-> TRUE, service |-> "CASIE Bridge"]
           /\ resp'.route = "health" =>
                 resp'.body = [status |-> "healthy", service |-> "CASIE Bridge",
                               version |-> "1.0.0", authenticated |-> TRUE]
           /\ UNCHANGED <<launches, upstream_calls, mirror_calls, location_file,
                          videos_file, req, now>>) ]_vars

\* a second health check, answered while a refresh is in flight and after a
\* process was launched or a first request answered
C12_Witness ==
    /\ resp.route = "health" /\ resp.status = 200 /\ resp.id = 2
    /\ \E s \in Slots : req[s].pc = "fetching"

\* ---- concurrent refreshes ------------------------------------------------
\* the upstream GETs in flight
InFlight == Cardinality({s \in Slots : req[s].pc = "fetching"})

\* the cache is missing, or well formed and cache_ttl_hours old or older
MissingOrExpired ==
    \/ ~location_file.exists
    \/ WellFormed(location_file) /\ now - location_file.last_updated.t >= TTL

\* the upstream GET of slot s ends in this step and is taken as a success
RefreshDone(s) ==
    /\ FetchDone(s)
    /\ \/ req'[s].pc = "mirroring"
       \/ resp'.id = req[s].id /\ resp'.upstream = "ok"

\* the payload the refresh of slot s holds when its GET has ended
RefreshPayload(s) ==
    IF req'[s].pc = "mirroring" THEN req'[s].location_data ELSE resp'.body.location

\* C13 (as stated): at most one upstream refresh is in flight at any time.
C13_SingleFlight == InFlight <= 1

\* C13 (amended): refreshes are per request and not serialised.  Every
\* authorized GET /location that finds the cache missing or expired sends
\* its own upstream GET, whether or not another one is in flight, and a step
\* never starts more than one.
C13_PerRequestRefresh ==
    [][ /\ (Arrived("location", API_AUTH_TOKEN) /\ MissingOrExpired) =>
              (InFlight' = InFlight + 1 /\ upstream_calls' = upstream_calls + 1)
        /\ InFlight' <= InFlight + 1
        /\ upstream_calls' \in {upstream_calls, upstream_calls + 1} ]_vars

\* two requests found no fresh cache and both have their GET in flight
C13_Witness ==
    /\ InFlight = 2
    /\ upstream_calls = 2

\* C14: a successful refresh writes {location: payload, last_updated: the
\* time of the write} to location.json and answers 200 with that payload,
\* that time, cached: false and age 0; a later authorized request that finds
\* this record less than cache_ttl_hours old is answered with the same
\* payload and time, cached: true, and sends nothing upstream.
C14_RefreshThenFresh ==
    [][ /\ \A s \in Slots :
            /\ RefreshDone(s) =>
                  /\ location_file' = ObjectFile(RefreshPayload(s), isoformat(now))
                  /\ RefreshPayload(s) \in Payloads
                  /\ req'[s].pc = "mirroring" => req'[s].stamp = isoformat(now)
                  /\ req'[s].pc # "mirroring" =>
                        resp'.body = [ok |-> TRUE, location |-> location_file'.location,
                                      cached |-> FALSE, last_updated |-> isoformat(now),
                                      age_hours |-> 0]
            /\ (req[s].pc = "mirroring" /\ req'[s].pc # "mirroring") =>
                  /\ resp'.id = req[s].id /\ resp'.status = 200
                  /\ resp'.body = [ok |-> TRUE, location |-> req[s].location_data,
                                   cached |-> FALSE, last_updated |-> req[s].stamp,
                                   age_hours |-> 0]
        /\ (/\ Arrived("location", API_AUTH_TOKEN)
            /\ WellFormed(location_file) /\ location_file.location \in Payloads
            /\ now - location_file.last_updated.t < TTL) =>
              (/\ resp'.id = nreq' /\ resp'.status = 200
               /\ resp'.body.cached = TRUE
               /\ resp'.body.location = location_file.location
               /\ resp'.body.last_updated = location_file.last_updated
               /\ UNCHANGED <<upstream_calls, mirror_calls, location_file, req>>) ]_vars

\* a request served, later than the refresh, the record that refresh wrote
C14_Witness ==
    /\ resp.route = "location" /\ resp.status = 200
    /\ resp.body.cached = TRUE /\ "stale" \notin DOMAIN resp.body
    /\ resp.body.location \in Payloads
    /\ upstream_calls = 1
    /\ now > resp.body.last_updated.t
    /\ location_file = ObjectFile(resp.body.location, resp.body.last_updated)

\* C15: nothing is tried twice.  An upstream GET is sent only by the step
\* that receives a GET /location, one per request; a mirror PUT is sent only
\* by the step that ends a request's upstream GET, one per request, and a
\* request never goes back to an earlier stage; a process is launched only
\* by the step that receives an executor request, one per request.
C15_NoRetry ==
    [][ /\ upstream_calls' # upstream_calls =>
              /\ upstream_calls' = upstream_calls + 1
              /\ nreq' = nreq + 1
              /\ \E s \in Slots : req[s].pc = "idle" /\ req'[s].pc = "fetching"
                                  /\ req'[s].id = nreq'
        /\ mirror_calls' # mirror_calls =>
              /\ mirror_calls' = mirror_calls + 1
              /\ \E s \in Slots : FetchDone(s) /\ req'[s].pc = "mirroring"
                                  /\ req'[s].id = req[s].id
        /\ \A s \in Slots :
              /\ req'[s].pc = "fetching" =>
                    \/ req[s] = req'[s]
                    \/ req[s].pc = "idle" /\ req'[s].id = nreq' /\ nreq' = nreq + 1
                       /\ upstream_calls' = upstream_calls + 1
              /\ req'[s].pc = "mirroring" =>
                    \/ req[s] = req'[s]
                    \/ req[s].pc = "fetching" /\ req'[s].id = req[s].id
                       /\ mirror_calls' = mirror_calls + 1
        /\ launches' # launches =>
              \/ Len(launches') = Len(launches)          \* a process exits
              \/ /\ OneLaunch
                 /\ nreq' = nreq + 1 /\ Launched.by = nreq' /\ resp'.id = nreq'
                 /\ resp'.route \in {"open", "lock", "restart", "shutdown", "sleep"} ]_vars

\* a refresh whose GET timed out and whose answer came after one GET, and an
\* executor whose launch raised and was answered after one launch
C15_Witness ==
    /\ resp.route = "location" /\ resp.upstream = "timeout" /\ resp.status = 502
    /\ upstream_calls = 1 /\ mirror_calls = 0
    /\ Len(launches) = 1 /\ launches[1].raised

\* C16: location.json is last-writer-wins.  It is always absent or one
\* complete record; it changes only in a step where exactly one request's
\* upstream GET ends in success; and every such step, whatever was written
\* meanwhile, leaves the record of that one refresh (its payload, the time
\* of the write), which stays until the next such step.
C16_LastWriterWins ==
    [][ /\ ~location_file'.exists \/ WellFormed(location_file')
        /\ \A s \in Slots :
              RefreshDone(s) =>
                  /\ location_file' = ObjectFile(RefreshPayload(s), isoformat(now))
                  /\ \A s2 \in Slots \ {s} : req'[s2] = req[s2]
        /\ location_file' # location_file => \E s \in Slots : RefreshDone(s) ]_vars

\* two refreshes in flight at once wrote different payloads; the file holds
\* the record of the one that wrote last, here the request that arrived first
C16_Witness ==
    \E s1, s2 \in Slots :
        /\ req[s1].pc = "mirroring" /\ req[s2].pc = "mirroring"
        /\ req[s1].location_data # req[s2].location_data
        /\ req[s1].id < req[s2].id
        /\ location_file = ObjectFile(req[s1].location_data, req[s1].stamp)

\* C18: a refresh that fails writes nothing.  The step that answers a GET
\* /location whose upstream GET ended in a transport error, a timeout, an
\* HTTP error status or a document with status "fail" leaves location.json
\* as it is, and so does the step that receives the request; location.json
\* changes only in a step that ends an upstream GET whose answer did not
\* report failure.
C18_FailureWritesNothing ==
    [][ /\ (Responded /\ resp'.route = "location"
              /\ resp'.upstream \in FailedTransport \cup {"fail"}) =>
              UNCHANGED location_file
        /\ nreq' # nreq => UNCHANGED location_file
        /\ location_file' # location_file => \E s \in Slots : RefreshDone(s) ]_vars

\* the upstream reported "fail" to a request that found an expired entry,
\* and the entry is still there
C18_Witness ==
    /\ resp.route = "location" /\ resp.upstream = "fail" /\ resp.status = 500
    /\ location_file = ObjectFile("loc0", isoformat(0))
    /\ now >= TTL

\* C19: the last_updated of location.json never decreases: every write to
\* a well-formed location.json leaves a well-formed one whose timestamp is
\* the same or later.
C19_MonotoneStamp ==
    [][ (WellFormed(location_file) /\ location_file' # location_file) =>
          (/\ WellFormed(location_file')
           /\ location_file'.last_updated.t >= location_file.last_updated.t) ]_vars

\* a refresh whose write came first is still waiting for its mirror while a
\* later write has moved the timestamp on
C19_Witness ==
    \E s \in Slots :
        /\ req[s].pc = "mirroring"
        /\ WellFormed(location_file)
        /\ req[s].stamp.t < location_file.last_updated.t

\* C17: every authorized GET /location is answered.  A request whose
\* upstream GET or mirror PUT is in flight is eventually sent its response,
\* whatever the upstream and the mirror do, silence included (the timeout
\* ends the await and the failure is handled).
C17_EventuallyAnswered ==
    \A i \in 1..MaxRequests :
        (\E s \in Slots : req[s].id = i /\ req[s].pc # "idle") ~> (resp.id = i)

\* a request answered after its upstream GET succeeded and its mirror PUT
\* timed out
C17_Witness ==
    /\ resp.route = "location" /\ resp.cred = API_AUTH_TOKEN
    /\ resp.upstream = "ok" /\ resp.mirror = "timeout"
    /\ \A s \in Slots : req[s].id # resp.id

\* C20: every point an index run upserts has an ID that no other point of
\* the run has and that no point of the collection had when the batch was
\* sent (so none the collection held before the run), also when embeddings
\* fail and when the scan for the highest ID fails.  When the scan raises,
\* the IDs start from 0 and land on points already in the collection.
C20_FreshPointIds ==
    [][ /\ \A i, j \in 1..Len(points') : i # j => points'[i] # points'[j]
        /\ total_upserted' > total_upserted =>
              \A i \in (total_upserted + 1)..total_upserted' : points[i] \notin qdrant_ids ]_vars
====
